---- MODULE Spec2Model ----
(***************************************************************************)
(* A model of src/common/file_util.cpp (namespace Common::FS):             *)
(*   - the path-text functions (SanitizePath, RemoveTrailingSlash,         *)
(*     GetParentPath, SplitPathComponents) and SplitFilename83,            *)
(*   - the process-wide user path table behind GetUserPath,                *)
(*   - the IOFile handle.                                                  *)
(* A std::string is a sequence of one-character strings; indices are the   *)
(* 0-based indices of the C++ code and Npos is std::string::npos.          *)
(***************************************************************************)
EXTENDS Integers, Sequences, FiniteSets, TLC

VARIABLES
    win,        \* the build: TRUE when _WIN32 is defined
    input,      \* the string a path-text function is called on
    out,        \* the last path-text call and what it returned
    localUserDir, \* the install-relative user directory exists (and is a directory)
    environ,    \* the XDG_* environment variables that are set
    paths,      \* GetUserPath's static std::unordered_map<UserPath, std::string>
    call,       \* the last GetUserPath call: its arguments and what it returned
    nOverrides, \* accepted overrides so far
    thread,     \* each thread's GetUserPath call: where it is, and its locals
    alive,      \* the IOFile objects constructed and not yet destroyed
    m_file,     \* IOFile::m_file of each object: NULL or a FILE stream
    streams,    \* the host's FILE streams
    ioCall      \* the last IOFile call and what it returned

textState == <<input, out>>
pathState == <<localUserDir, environ, paths, call, nOverrides, thread>>
fileState == <<alive, m_file, streams, ioCall>>
vars == <<win, textState, pathState, fileState>>

----------------------------------------------------------------------------
(* Bounds of the model. *)

MaxPathLen == 4
MaxNameLen == 9
MaxOverrides == 1
MaxStreams == 2
MaxFile == 1

(* std::size_t / u64 maximum. TLC's integers are 32 bits wide, so the      *)
(* all-ones value is modelled by the largest integer TLC has; every string *)
(* of the model is far shorter, and the only arithmetic on it is the       *)
(* wrap-around of SizeDec.                                                 *)
SizeMax == 2147483647
Npos == SizeMax
U64Max == SizeMax

PathChars == {"/", "\\", ".", "a"}
NameChars == {".", "a", "b"}

StringsOver(chars, n) == UNION {[1..k -> chars] : k \in 0..n}

Min(a, b) == IF a <= b THEN a ELSE b
Max(a, b) == IF a >= b THEN a ELSE b

(* unsigned n - 1 *)
SizeDec(n) == IF n = 0 THEN SizeMax ELSE n - 1

----------------------------------------------------------------------------
(* std::string primitives *)

(* s.rfind(c, pos): the last index <= pos holding c, else npos *)
RfindFrom(s, c, pos) ==
    LET hits == {i \in 0..(Len(s) - 1) : i <= pos /\ s[i + 1] = c}
    IN  IF hits = {} THEN Npos ELSE CHOOSE i \in hits : \A k \in hits : k <= i

(* s.rfind(c) *)
Rfind(s, c) == RfindFrom(s, c, Npos)

(* s.find(c, pos): the first index >= pos holding c, else npos *)
FindFrom(s, c, pos) ==
    LET hits == {i \in 0..(Len(s) - 1) : i >= pos /\ s[i + 1] = c}
    IN  IF hits = {} THEN Npos ELSE CHOOSE i \in hits : \A k \in hits : i <= k

(* s.substr(pos, n), for pos <= s.size() *)
Substr(s, pos, n) == SubSeq(s, pos + 1, pos + Min(n, Len(s) - pos))

(* std::replace(s.begin(), s.end(), from, to) *)
Replace(s, from, to) == [i \in 1..Len(s) |-> IF s[i] = from THEN to ELSE s[i]]

(* std::unique over s with the predicate "both are c": every run of c      *)
(* collapses to one c.                                                     *)
RECURSIVE UniqueRuns(_, _)
UniqueRuns(s, c) ==
    IF Len(s) <= 1 THEN s
    ELSE IF s[1] = c /\ s[2] = c THEN UniqueRuns(Tail(s), c)
    ELSE <<s[1]>> \o UniqueRuns(Tail(s), c)

(* std::toupper on the characters of the model *)
ToUpper(c) == IF c = "a" THEN "A" ELSE IF c = "b" THEN "B" ELSE c

----------------------------------------------------------------------------
(* Path text *)

RemoveTrailingSlash(path) ==
    IF path = <<>> THEN path
    ELSE IF path[Len(path)] = "\\" \/ path[Len(path)] = "/"
         THEN SubSeq(path, 1, Len(path) - 1)
         ELSE path

Separators == {"ForwardSlash", "BackwardSlash", "PlatformDefault"}

(* type1 is replaced by type2 *)
SanitizeType1(directory_separator, w) ==
    IF directory_separator = "PlatformDefault" /\ w THEN "/"
    ELSE IF directory_separator = "BackwardSlash" THEN "/" ELSE "\\"

SanitizeType2(directory_separator, w) ==
    IF directory_separator = "PlatformDefault" /\ w THEN "\\"
    ELSE IF directory_separator = "BackwardSlash" THEN "\\" ELSE "/"

SanitizePath(path_, directory_separator, w) ==
    LET type1 == SanitizeType1(directory_separator, w)
        type2 == SanitizeType2(directory_separator, w)
        path == Replace(path_, type1, type2)
        \* on Windows std::unique starts at the second character
        erased == IF w /\ path # <<>>
                  THEN <<path[1]>> \o UniqueRuns(Tail(path), type2)
                  ELSE UniqueRuns(path, type2)
    IN  RemoveTrailingSlash(erased)

GetParentPath(path) ==
    LET name_bck_index == Rfind(path, "\\")
        name_fwd_index == Rfind(path, "/")
        name_index == IF name_bck_index = Npos \/ name_fwd_index = Npos
                      THEN Min(name_bck_index, name_fwd_index)
                      ELSE Max(name_bck_index, name_fwd_index)
    IN  Substr(path, 0, name_index)

(* the while (std::getline(stream, item, '/')) loop: pos is the stream's   *)
(* read position. At end of stream getline extracts nothing and fails.     *)
RECURSIVE GetlineLoop(_, _, _)
GetlineLoop(copy, pos, acc) ==
    IF pos >= Len(copy) THEN acc
    ELSE LET k == FindFrom(copy, "/", pos)
         IN  IF k = Npos
             THEN Append(acc, Substr(copy, pos, Npos))
             ELSE GetlineLoop(copy, k + 1, Append(acc, Substr(copy, pos, k - pos)))

(* SplitPathComponents without the std::replace of '\\' by '/' *)
SplitPathComponents_NoReplace(filename) ==
    GetlineLoop(filename, 0, <<>>)

SplitPathComponents(filename) ==
    GetlineLoop(Replace(filename, "\\", "/"), 0, <<>>)

(* CreateFullPath: the path handed to CreateDirs *)
CreateFullPath(path, w) ==
    LET new_path == SanitizePath(path, "ForwardSlash", w)
    IN  IF Rfind(new_path, ".") = Npos
        THEN new_path
        ELSE Substr(new_path, 0, Rfind(new_path, "/"))

----------------------------------------------------------------------------
(* SplitFilename83 *)

forbidden_characters == {".", "\"", "/", "\\", "[", "]", ":", ";", "=", ",", " "}

(* the split point: the last '.', looked up again when it is the final     *)
(* character                                                               *)
SplitPoint(filename) ==
    LET point == Rfind(filename, ".")
    IN  IF point = SizeDec(Len(filename))
        THEN RfindFrom(filename, ".", point)
        ELSE point

(* the loop over filename.substr(0, point): i is the next letter, j the    *)
(* next free slot of short_name                                            *)
RECURSIVE ShortNameLoop(_, _, _, _)
ShortNameLoop(letters, i, j, short_name) ==
    IF i > Len(letters) THEN short_name
    ELSE IF letters[i] \in forbidden_characters
         THEN ShortNameLoop(letters, i + 1, j, short_name)
    ELSE IF j = 8
         THEN [short_name EXCEPT ![7] = "~", ![8] = "1"]
    ELSE ShortNameLoop(letters, i + 1, j + 1,
                       [short_name EXCEPT ![j + 1] = ToUpper(letters[i])])

(* the loop over filename.substr(point + 1, 3) *)
ExtensionLoop(letters, extension) ==
    [k \in 1..4 |-> IF k <= Len(letters) THEN ToUpper(letters[k]) ELSE extension[k]]

SplitFilename83(filename) ==
    LET blank_name == <<" ", " ", " ", " ", " ", " ", " ", " ", "NUL">>
        blank_ext == <<" ", " ", " ", "NUL">>
        point == SplitPoint(filename)
    IN  [short_name |-> ShortNameLoop(Substr(filename, 0, point), 1, 0, blank_name),
         extension |-> IF point # Npos
                       THEN ExtensionLoop(Substr(filename, point + 1, 3), blank_ext)
                       ELSE blank_ext]

----------------------------------------------------------------------------
(* The path-text functions, each called once on an input string. *)

NoCall == [op |-> "none"]

EmptyMap == [k \in {} |-> <<>>]

(* the parts of the state a specification does not exercise stay as they   *)
(* are before first use                                                    *)
TextAtRest == input = <<>> /\ out = NoCall

Threads == {"t1", "t2"}

(* a thread that has not called GetUserPath *)
IdleThread ==
    [pc |-> "idle", path |-> "none", k |-> 0, skipped |-> FALSE, overlap |-> FALSE,
     ret |-> <<>>]

ThreadsIdle == thread = [t \in Threads |-> IdleThread]

PathsAtRest ==
    /\ localUserDir = FALSE
    /\ environ = {}
    /\ paths = EmptyMap
    /\ call = NoCall
    /\ nOverrides = 0
    /\ ThreadsIdle

NULL == 0

Handles == {"f", "g"}

NoStream == [status |-> "free", pos |-> 0, size |-> 0, closes |-> 0]

FilesAtRest ==
    /\ alive = [h \in Handles |-> FALSE]
    /\ m_file = [h \in Handles |-> NULL]
    /\ streams = [s \in 1..MaxStreams |-> NoStream]
    /\ ioCall = NoCall

InitText ==
    /\ win \in BOOLEAN
    /\ input \in StringsOver(PathChars, MaxPathLen)
    /\ out = NoCall
    /\ PathsAtRest
    /\ FilesAtRest

CallSanitizePath ==
    /\ out = NoCall
    /\ \E d \in Separators :
          out' = [op |-> "SanitizePath", sep |-> d, res |-> SanitizePath(input, d, win)]
    /\ UNCHANGED <<win, input, pathState, fileState>>

CallGetParentPath ==
    /\ out = NoCall
    /\ out' = [op |-> "GetParentPath", res |-> GetParentPath(input)]
    /\ UNCHANGED <<win, input, pathState, fileState>>

CallSplitPathComponents ==
    /\ out = NoCall
    /\ out' = [op |-> "SplitPathComponents", res |-> SplitPathComponents(input)]
    /\ UNCHANGED <<win, input, pathState, fileState>>

CallCreateFullPath ==
    /\ out = NoCall
    /\ out' = [op |-> "CreateFullPath", res |-> CreateFullPath(input, win)]
    /\ UNCHANGED <<win, input, pathState, fileState>>

NextText ==
    \/ CallSanitizePath
    \/ CallGetParentPath
    \/ CallSplitPathComponents
    \/ CallCreateFullPath

SpecText == InitText /\ [][NextText]_vars

(* SplitFilename83 called once on a file name. *)

InitName ==
    /\ win \in BOOLEAN
    /\ input \in StringsOver(NameChars, MaxNameLen)
    /\ out = NoCall
    /\ PathsAtRest
    /\ FilesAtRest

CallSplitFilename83 ==
    /\ out = NoCall
    /\ out' = [op |-> "SplitFilename83", point |-> SplitPoint(input),
               res |-> SplitFilename83(input)]
    /\ UNCHANGED <<win, input, pathState, fileState>>

NextName == CallSplitFilename83

SpecName == InitName /\ [][NextName]_vars

----------------------------------------------------------------------------
(* IOFile. A FILE stream of the host is free (never handed out), open, or  *)
(* closed (fclose was called on it: whether or not fclose succeeds, the    *)
(* stream is gone). closes counts the fclose calls a stream has received,  *)
(* saturating at 2. Each stream reads and writes a file of its own of at   *)
(* most MaxFile bytes; pos is its file position.                           *)

Lengths == 0..(MaxFile + 1)

(* the member initializer of m_file *)
DefaultMFile == NULL

IsOpen(mf, h) == mf[h] # NULL

(* a use of a FILE* after fclose is undefined: any value may come back *)
AnyU64 == (0..MaxFile) \cup {U64Max}

(* std::fclose(st[s]) *)
Fclose(st, s) ==
    [st EXCEPT ![s] = [status |-> "closed", pos |-> 0, size |-> 0,
                       closes |-> Min(@.closes + 1, 2)]]

(* IOFile::Close on object h; ok: std::fclose returns 0 *)
CloseResult(mf, st, h, ok) ==
    IF ~IsOpen(mf, h) THEN [m_file |-> mf, streams |-> st, ret |-> FALSE]
    ELSE IF ~ok THEN [m_file |-> mf, streams |-> Fclose(st, mf[h]), ret |-> FALSE]
    ELSE [m_file |-> [mf EXCEPT ![h] = NULL], streams |-> Fclose(st, mf[h]),
          ret |-> TRUE]

FreeStreams(st) == {s \in DOMAIN st : st[s].status = "free"}

(* IOFile::Open on object h; closeOk: the fclose of Close() returns 0;     *)
(* s: the stream std::fopen returns, NULL when it fails; n: the size of    *)
(* the file opened                                                         *)
OpenResult(mf, st, h, closeOk, s, n) ==
    LET c == CloseResult(mf, st, h, closeOk)
    IN  IF s = NULL
        THEN [m_file |-> [c.m_file EXCEPT ![h] = NULL], streams |-> c.streams,
              ret |-> FALSE]
        ELSE [m_file |-> [c.m_file EXCEPT ![h] = s],
              streams |-> [c.streams EXCEPT ![s] =
                              [status |-> "open", pos |-> 0, size |-> n, closes |-> 0]],
              ret |-> TRUE]

(* FS::GetSize of an open FILE stream; seekEnd, seekBack: the fseeko     *)
(* calls return 0                                                          *)
GetSizeOfStream(f, seekEnd, seekBack) ==
    LET pos == f.pos
        size == f.size
    IN  IF ~seekEnd THEN [stream |-> f, ret |-> 0]
        ELSE IF size # pos /\ ~seekBack
             THEN [stream |-> [f EXCEPT !.pos = size], ret |-> 0]
        ELSE [stream |-> f, ret |-> size]

(* the value IOFile::GetSize returns for an object that is not open *)
GetSizeNotOpen == 0

(* the value IOFile::Tell returns for an object that is not open *)
TellNotOpen == U64Max

(* ReadImpl and WriteImpl testing length == 0 before IsOpen() *)
TransferReturn_ZeroFirst(open, length, transferred) ==
    IF length = 0 THEN 0
    ELSE IF ~open THEN SizeMax
    ELSE transferred

(* what ReadImpl and WriteImpl return; transferred: what std::fread or     *)
(* std::fwrite returns when it is called                                   *)
TransferReturn(open, length, transferred) ==
    IF ~open THEN SizeMax
    ELSE IF length = 0 THEN 0
    ELSE transferred

Construct(h) ==
    /\ ~alive[h]
    /\ alive' = [alive EXCEPT ![h] = TRUE]
    /\ m_file' = [m_file EXCEPT ![h] = DefaultMFile]
    /\ ioCall' = [op |-> "IOFile", h |-> h]
    /\ UNCHANGED <<streams, win, textState, pathState>>

(* the stream a successful std::fopen hands out, or NULL *)
FopenOutcomes(st) ==
    {NULL} \cup (IF FreeStreams(st) = {} THEN {}
                 ELSE {CHOOSE s \in FreeStreams(st) : \A t \in FreeStreams(st) : s <= t})

(* IOFile(filename, openmode, flags): a new object h, then Open *)
ConstructOpen(h) ==
    /\ ~alive[h]
    /\ alive' = [alive EXCEPT ![h] = TRUE]
    /\ \E s \in FopenOutcomes(streams), n \in 0..MaxFile :
          /\ s = NULL => n = 0
          /\ LET r == OpenResult([m_file EXCEPT ![h] = DefaultMFile], streams, h,
                                 TRUE, s, n)
             IN  /\ m_file' = r.m_file
                 /\ streams' = r.streams
                 /\ ioCall' = [op |-> "IOFile(filename)", h |-> h, ret |-> r.ret]
    /\ UNCHANGED <<win, textState, pathState>>

Open(h) ==
    /\ alive[h]
    /\ \E closeOk \in BOOLEAN, s \in FopenOutcomes(streams), n \in 0..MaxFile :
          /\ ~IsOpen(m_file, h) => closeOk
          /\ s = NULL => n = 0
          /\ LET r == OpenResult(m_file, streams, h, closeOk, s, n)
             IN  /\ m_file' = r.m_file
                 /\ streams' = r.streams
                 /\ ioCall' = [op |-> "Open", h |-> h, open |-> IsOpen(m_file, h),
                               ret |-> r.ret]
    /\ UNCHANGED <<alive, win, textState, pathState>>

Close(h) ==
    /\ alive[h]
    /\ \E ok \in BOOLEAN :
          /\ ~IsOpen(m_file, h) => ok
          /\ LET r == CloseResult(m_file, streams, h, ok)
             IN  /\ m_file' = r.m_file
                 /\ streams' = r.streams
                 /\ ioCall' = [op |-> "Close", h |-> h, open |-> IsOpen(m_file, h),
                               ret |-> r.ret]
    /\ UNCHANGED <<alive, win, textState, pathState>>

(* ~IOFile: Close(), whatever it returns, and the object is gone *)
Destroy(h) ==
    /\ alive[h]
    /\ \E ok \in BOOLEAN :
          /\ ~IsOpen(m_file, h) => ok
          /\ LET r == CloseResult(m_file, streams, h, ok)
             IN  /\ m_file' = [r.m_file EXCEPT ![h] = NULL]
                 /\ streams' = r.streams
                 /\ ioCall' = [op |-> "~IOFile", h |-> h, open |-> IsOpen(m_file, h),
                               ret |-> r.ret]
    /\ alive' = [alive EXCEPT ![h] = FALSE]
    /\ UNCHANGED <<win, textState, pathState>>

(* IOFile(IOFile&& other): a new object h, then Swap(other) *)
MoveConstruct(h, other) ==
    /\ ~alive[h] /\ alive[other]
    /\ alive' = [alive EXCEPT ![h] = TRUE]
    /\ m_file' = [m_file EXCEPT ![h] = m_file[other], ![other] = DefaultMFile]
    /\ ioCall' = [op |-> "IOFile(IOFile&&)", h |-> h]
    /\ UNCHANGED <<streams, win, textState, pathState>>

(* operator=(IOFile&& other): Swap(other) *)
MoveAssign(h, other) ==
    /\ alive[h] /\ alive[other]
    /\ m_file' = [m_file EXCEPT ![h] = m_file[other], ![other] = m_file[h]]
    /\ ioCall' = [op |-> "operator=", h |-> h]
    /\ UNCHANGED <<alive, streams, win, textState, pathState>>

GetSize(h) ==
    /\ alive[h]
    /\ IF ~IsOpen(m_file, h)
       THEN /\ ioCall' = [op |-> "GetSize", h |-> h, open |-> FALSE,
                          ret |-> GetSizeNotOpen]
            /\ UNCHANGED streams
       ELSE IF streams[m_file[h]].status = "open"
       THEN \E seekEnd, seekBack \in BOOLEAN :
               LET r == GetSizeOfStream(streams[m_file[h]], seekEnd, seekBack)
               IN  /\ streams' = [streams EXCEPT ![m_file[h]] = r.stream]
                   /\ ioCall' = [op |-> "GetSize", h |-> h, open |-> TRUE, ret |-> r.ret]
       ELSE \E v \in AnyU64 :
               /\ ioCall' = [op |-> "GetSize", h |-> h, open |-> TRUE, ret |-> v]
               /\ UNCHANGED streams
    /\ UNCHANGED <<alive, m_file, win, textState, pathState>>

Tell(h) ==
    /\ alive[h]
    /\ IF ~IsOpen(m_file, h)
       THEN ioCall' = [op |-> "Tell", h |-> h, open |-> FALSE, ret |-> TellNotOpen]
       ELSE IF streams[m_file[h]].status = "open"
       THEN \E ftelloOk \in BOOLEAN :
               ioCall' = [op |-> "Tell", h |-> h, open |-> TRUE,
                          ret |-> IF ftelloOk THEN streams[m_file[h]].pos ELSE U64Max]
       ELSE \E v \in AnyU64 :
               ioCall' = [op |-> "Tell", h |-> h, open |-> TRUE, ret |-> v]
    /\ UNCHANGED <<alive, m_file, streams, win, textState, pathState>>

ReadImpl(h, length) ==
    /\ alive[h]
    /\ IF ~IsOpen(m_file, h)
       THEN /\ ioCall' = [op |-> "ReadImpl", h |-> h, open |-> FALSE, length |-> length,
                          ret |-> TransferReturn(FALSE, length, 0)]
            /\ UNCHANGED streams
       ELSE IF length = 0
       THEN /\ ioCall' = [op |-> "ReadImpl", h |-> h, open |-> TRUE, length |-> length,
                          ret |-> TransferReturn(TRUE, length, 0)]
            /\ UNCHANGED streams
       ELSE IF streams[m_file[h]].status = "open"
       THEN LET f == streams[m_file[h]]
            IN  \E k \in 0..Min(length, f.size - f.pos) :
                   /\ streams' = [streams EXCEPT ![m_file[h]].pos = @ + k]
                   /\ ioCall' = [op |-> "ReadImpl", h |-> h, open |-> TRUE,
                                 length |-> length,
                             ret |-> TransferReturn(TRUE, length, k)]
       ELSE \E k \in 0..length :
               /\ ioCall' = [op |-> "ReadImpl", h |-> h, open |-> TRUE,
                             length |-> length,
                             ret |-> TransferReturn(TRUE, length, k)]
               /\ UNCHANGED streams
    /\ UNCHANGED <<alive, m_file, win, textState, pathState>>

WriteImpl(h, length) ==
    /\ alive[h]
    /\ IF ~IsOpen(m_file, h)
       THEN /\ ioCall' = [op |-> "WriteImpl", h |-> h, open |-> FALSE, length |-> length,
                          ret |-> TransferReturn(FALSE, length, 0)]
            /\ UNCHANGED streams
       ELSE IF length = 0
       THEN /\ ioCall' = [op |-> "WriteImpl", h |-> h, open |-> TRUE, length |-> length,
                          ret |-> TransferReturn(TRUE, length, 0)]
            /\ UNCHANGED streams
       ELSE IF streams[m_file[h]].status = "open"
       THEN LET f == streams[m_file[h]]
            IN  \E k \in 0..Min(length, MaxFile - f.pos) :
                   /\ streams' = [streams EXCEPT ![m_file[h]] =
                                     [f EXCEPT !.pos = f.pos + k,
                                               !.size = Max(f.size, f.pos + k)]]
                   /\ ioCall' = [op |-> "WriteImpl", h |-> h, open |-> TRUE,
                                 length |-> length,
                             ret |-> TransferReturn(TRUE, length, k)]
       ELSE \E k \in 0..length :
               /\ ioCall' = [op |-> "WriteImpl", h |-> h, open |-> TRUE,
                             length |-> length,
                             ret |-> TransferReturn(TRUE, length, k)]
               /\ UNCHANGED streams
    /\ UNCHANGED <<alive, m_file, win, textState, pathState>>

InitFiles ==
    /\ win \in BOOLEAN
    /\ FilesAtRest
    /\ TextAtRest
    /\ PathsAtRest

NextFiles ==
    \E h \in Handles :
        \/ Construct(h)
        \/ ConstructOpen(h)
        \/ Open(h)
        \/ Close(h)
        \/ Destroy(h)
        \/ \E other \in Handles \ {h} : MoveConstruct(h, other)
        \/ \E other \in Handles : MoveAssign(h, other)
        \/ GetSize(h)
        \/ Tell(h)
        \/ \E length \in Lengths : ReadImpl(h, length)
        \/ \E length \in Lengths : WriteImpl(h, length)

SpecFiles == InitFiles /\ [][NextFiles]_vars

----------------------------------------------------------------------------
(* Properties of the path-text functions *)

IsSep(c) == c = "/" \/ c = "\\"

SepIndices(path) == {i \in 1..Len(path) : IsSep(path[i])}

EndsWithSep(path) == path # <<>> /\ IsSep(path[Len(path)])

RECURSIVE JoinWithSlash(_)
JoinWithSlash(parts) ==
    IF parts = <<>> THEN <<>>
    ELSE IF Len(parts) = 1 THEN parts[1]
    ELSE parts[1] \o <<"/">> \o JoinWithSlash(Tail(parts))

(* C7: SanitizePath is idempotent, for every path, every separator         *)
(* preference and both builds: sanitizing the result again returns it      *)
(* unchanged.                                                              *)
C7_SanitizeIdempotent ==
    out.op = "SanitizePath" => SanitizePath(out.res, out.sep, win) = out.res

(* C8: GetParentPath returns the prefix ending just before the right-most  *)
(* of '/' and '\', and the empty string when the path holds neither.       *)
C8_ParentIsPrefixBeforeLastSep ==
    out.op = "GetParentPath" =>
        out.res = IF SepIndices(input) = {} THEN <<>>
                  ELSE SubSeq(input, 1,
                         (CHOOSE i \in SepIndices(input) :
                             \A k \in SepIndices(input) : k <= i) - 1)

(* C9 as stated: SplitPathComponents always returns one component more     *)
(* than the path has separators.                                           *)
C9_CountIsSeparatorsPlusOne ==
    out.op = "SplitPathComponents" =>
        Len(out.res) = Cardinality(SepIndices(input)) + 1

(* C9 amended: SplitPathComponents treats '\' as '/' and splits on '/',    *)
(* keeping every empty component except a trailing one: the components,    *)
(* none holding a separator, joined by '/' give the path with '\' turned   *)
(* into '/' and one trailing separator removed; their number is one more   *)
(* than the number of separators unless the path is empty or ends with a   *)
(* separator, when it equals the number of separators; a leading separator *)
(* yields an empty first entry.                                            *)
C9_SplitDropsTrailingEmpty ==
    out.op = "SplitPathComponents" =>
        LET norm == [i \in 1..Len(input) |-> IF input[i] = "\\" THEN "/" ELSE input[i]]
            nsep == Cardinality(SepIndices(input))
        IN  /\ \A i \in 1..Len(out.res) : SepIndices(out.res[i]) = {}
            /\ JoinWithSlash(out.res) =
                 IF EndsWithSep(input) THEN SubSeq(norm, 1, Len(norm) - 1) ELSE norm
            /\ Len(out.res) =
                 IF input = <<>> \/ EndsWithSep(input) THEN nsep ELSE nsep + 1
            /\ (input # <<>> /\ IsSep(input[1])) => out.res[1] = <<>>

(* a path with a leading and a trailing separator was split: the first     *)
(* entry is empty and no empty last entry stands for the trailing one      *)
C9_Witness ==
    /\ out.op = "SplitPathComponents"
    /\ Len(input) >= 3 /\ IsSep(input[1]) /\ EndsWithSep(input)
    /\ input[2] = "a" /\ "\\" \in {input[i] : i \in 1..Len(input)}
    /\ out.res[1] = <<>>
    /\ out.res[Len(out.res)] # <<>>

(* C10: when the last '.' of the file name is its final character and an   *)
(* earlier '.' exists, SplitFilename83 splits at that earlier '.', and the *)
(* extension is built from the (up to 3) characters after it, so it is not *)
(* all spaces.                                                             *)
C10_TrailingDotSplitsAtPreviousDot ==
    (/\ out.op = "SplitFilename83"
     /\ Len(input) >= 2
     /\ input[Len(input)] = "."
     /\ RfindFrom(input, ".", Len(input) - 2) # Npos) =>
        LET prev == RfindFrom(input, ".", Len(input) - 2)
        IN  /\ out.point = prev
            /\ out.res.extension =
                 [k \in 1..4 |->
                    IF k = 4 THEN "NUL"
                    ELSE IF prev + k <= Len(input) - 1
                         THEN ToUpper(input[prev + k + 1]) ELSE " "]
            /\ out.res.extension # <<" ", " ", " ", "NUL">>

(* C11: CreateFullPath calls CreateDirs on the empty string when the       *)
(* sanitized path has a '.' and no separator, on the whole sanitized path  *)
(* when it has no '.', and on the part before the last '/' when it has a   *)
(* '.' and a separator.                                                    *)
C11_CreateDirsArgument ==
    out.op = "CreateFullPath" =>
        LET sanitized == SanitizePath(input, "ForwardSlash", win)
            dots == {i \in 1..Len(sanitized) : sanitized[i] = "."}
            slashes == {i \in 1..Len(sanitized) : sanitized[i] = "/"}
        IN  /\ dots # {} /\ SepIndices(sanitized) = {} => out.res = <<>>
            /\ dots = {} => out.res = sanitized
            /\ dots # {} /\ slashes # {} =>
                  out.res = SubSeq(sanitized, 1, Max(0, CHOOSE i \in slashes :
                                         \A j \in slashes : j <= i) - 1)

----------------------------------------------------------------------------
(* GetUserPath. A path is a sequence of pieces: a piece is DIR_SEP, one of *)
(* the directory-name macros of common/common_paths.h (by its macro name), *)
(* or a literal of the code or of the environment.                         *)

UserPath == {"RootDir", "UserDir", "ConfigDir", "CacheDir", "SDMCDir", "NANDDir",
             "LoadDir", "DumpDir", "ScreenshotsDir", "ShaderDir", "SysDataDir",
             "KeysDir", "LogDir"}

DIR_SEP == "DIR_SEP"

XdgVars == {"XDG_DATA_HOME", "XDG_CONFIG_HOME", "XDG_CACHE_HOME"}

(* the host file system, as far as IsDirectory(new_path) can tell *)
Directories == {<<"/", "d1">>, <<"/", "d2">>}
NotDirectories == {<<"/", "nodir">>}   \* absent, or a regular file
NewPaths == {<<>>} \cup Directories \cup NotDirectories

IsDirectory(path) == path \in Directories

(* std::unordered_map: paths[k] inserts an empty string for a missing key, *)
(* emplace keeps the entry of a key already there                          *)
Touch(m, k) == IF k \in DOMAIN m THEN m ELSE m @@ (k :> <<>>)
Emplace(m, k, v) == IF k \in DOMAIN m THEN m ELSE m @@ (k :> v)
Assign(m, k, v) == [x \in DOMAIN m \cup {k} |-> IF x = k THEN v ELSE m[x]]

GetHomeDirectory == <<"/", "home">>

GetExeDirectory == <<"C:", "\\", "exe">>

AppDataRoamingDirectory == <<"C:", "\\", "AppData", "\\", "Roaming">>

(* the value of a set XDG variable: absolute, as the ASSERT_MSG requires *)
GetUserDirectory(envvar, env) ==
    IF envvar \in env THEN <<"/", envvar>>
    ELSE GetHomeDirectory \o
         (IF envvar = "XDG_DATA_HOME" THEN <<DIR_SEP, ".local", DIR_SEP, "share">>
          ELSE IF envvar = "XDG_CONFIG_HOME" THEN <<DIR_SEP, ".config">>
          ELSE <<DIR_SEP, ".cache">>)

(* the roles every branch derives from user_path, in emplace order *)
CommonSuffixes ==
    << <<"SDMCDir", "SDMC_DIR">>, <<"NANDDir", "NAND_DIR">>, <<"LoadDir", "LOAD_DIR">>,
       <<"DumpDir", "DUMP_DIR">>, <<"ScreenshotsDir", "SCREENSHOTS_DIR">>,
       <<"ShaderDir", "SHADER_DIR">>, <<"SysDataDir", "SYSDATA_DIR">>,
       <<"KeysDir", "KEYS_DIR">>, <<"LogDir", "LOG_DIR">> >>

RECURSIVE EmplaceAll(_, _, _)
EmplaceAll(m, user_path, todo) ==
    IF todo = <<>> THEN m
    ELSE EmplaceAll(Emplace(m, todo[1][1], user_path \o <<todo[1][2], DIR_SEP>>),
                    user_path, Tail(todo))

(* the first-run block: m already holds the (empty) UserDir entry *)
FirstRun(m, w, local, env) ==
    LET user_path ==
            IF w THEN IF local
                      THEN GetExeDirectory \o <<DIR_SEP, "USERDATA_DIR", DIR_SEP>>
                      ELSE AppDataRoamingDirectory \o <<DIR_SEP, "EMU_DATA_DIR", DIR_SEP>>
            ELSE IF local
                 THEN <<"ROOT_DIR", DIR_SEP, "USERDATA_DIR", DIR_SEP>>
                 ELSE GetUserDirectory("XDG_DATA_HOME", env)
                        \o <<DIR_SEP, "EMU_DATA_DIR", DIR_SEP>>
        config_path ==
            IF w \/ local THEN user_path \o <<"CONFIG_DIR", DIR_SEP>>
            ELSE GetUserDirectory("XDG_CONFIG_HOME", env)
                   \o <<DIR_SEP, "EMU_DATA_DIR", DIR_SEP>>
        cache_path ==
            IF w \/ local THEN user_path \o <<"CACHE_DIR", DIR_SEP>>
            ELSE GetUserDirectory("XDG_CACHE_HOME", env)
                   \o <<DIR_SEP, "EMU_DATA_DIR", DIR_SEP>>
        m1 == Assign(m, "UserDir", user_path)
        m2 == Emplace(m1, "ConfigDir", config_path)
        m3 == Emplace(m2, "CacheDir", cache_path)
    IN  EmplaceAll(m3, user_path, CommonSuffixes)

(* the switch with the UserDir case leaving ConfigDir as it was *)
Cascade_KeepsConfig(m, path) ==
    IF path = "RootDir"
    THEN Assign(m, "UserDir", m["RootDir"] \o <<DIR_SEP>>)
    ELSE IF path = "UserDir"
    THEN LET m0 == Touch(m, "RootDir")
             user_path == m0["RootDir"] \o <<DIR_SEP>>
             m1 == Assign(m0, "UserDir", user_path)
             m3 == Assign(m1, "CacheDir", user_path \o <<"CACHE_DIR", DIR_SEP>>)
             m4 == Assign(m3, "SDMCDir", user_path \o <<"SDMC_DIR", DIR_SEP>>)
         IN  Assign(m4, "NANDDir", user_path \o <<"NAND_DIR", DIR_SEP>>)
    ELSE m

(* the switch after an accepted override; user_path is a reference to the  *)
(* UserDir entry                                                           *)
Cascade(m, path) ==
    IF path = "RootDir"
    THEN Assign(m, "UserDir", m["RootDir"] \o <<DIR_SEP>>)
    ELSE IF path = "UserDir"
    THEN LET m0 == Touch(m, "RootDir")
             user_path == m0["RootDir"] \o <<DIR_SEP>>
             m1 == Assign(m0, "UserDir", user_path)
             m2 == Assign(m1, "ConfigDir", user_path \o <<"CONFIG_DIR", DIR_SEP>>)
             m3 == Assign(m2, "CacheDir", user_path \o <<"CACHE_DIR", DIR_SEP>>)
             m4 == Assign(m3, "SDMCDir", user_path \o <<"SDMC_DIR", DIR_SEP>>)
         IN  Assign(m4, "NANDDir", user_path \o <<"NAND_DIR", DIR_SEP>>)
    ELSE m

(* GetUserPath without the IsDirectory(new_path) check *)
GetUserPathResult_NoCheck(m, path, new_path, w, local, env) ==
    LET m0 == Touch(m, "UserDir")
        m1 == IF m0["UserDir"] = <<>> THEN FirstRun(m0, w, local, env) ELSE m0
        m2 == IF new_path = <<>>
              THEN m1
              ELSE Cascade(Assign(m1, path, new_path), path)
        m3 == Touch(m2, path)
    IN  [paths |-> m3, ret |-> m3[path]]

(* the table after GetUserPath(path, new_path) and the string it returns *)
GetUserPathResult(m, path, new_path, w, local, env) ==
    LET m0 == Touch(m, "UserDir")
        m1 == IF m0["UserDir"] = <<>> THEN FirstRun(m0, w, local, env) ELSE m0
        m2 == IF new_path = <<>> \/ ~IsDirectory(new_path)
              THEN m1
              ELSE Cascade(Assign(m1, path, new_path), path)
        m3 == Touch(m2, path)
    IN  [paths |-> m3, ret |-> m3[path]]

InitPaths ==
    /\ win \in BOOLEAN
    /\ localUserDir \in BOOLEAN
    /\ environ \in IF win \/ localUserDir THEN {{}} ELSE {{}, XdgVars}
    /\ paths = EmptyMap
    /\ call = NoCall
    /\ nOverrides = 0
    /\ ThreadsIdle
    /\ TextAtRest
    /\ FilesAtRest

GetUserPath(path, new_path) ==
    LET r == GetUserPathResult(paths, path, new_path, win, localUserDir, environ)
        accepted == new_path # <<>> /\ IsDirectory(new_path)
    IN  /\ accepted => nOverrides < MaxOverrides
        /\ paths' = r.paths
        /\ call' = [op |-> "GetUserPath", path |-> path, new_path |-> new_path,
                    ret |-> r.ret]
        /\ nOverrides' = IF accepted THEN nOverrides + 1 ELSE nOverrides
        /\ UNCHANGED <<win, localUserDir, environ, thread, textState, fileState>>

NextPaths == \E path \in UserPath, new_path \in NewPaths : GetUserPath(path, new_path)

SpecPaths == InitPaths /\ [][NextPaths]_vars

----------------------------------------------------------------------------
(* First GetUserPath(path) calls of two threads, without overrides, taken  *)
(* statement by statement. paths is a function-local static shared by all  *)
(* callers and nothing orders their accesses; user_path is a reference to  *)
(* the UserDir entry, so every read of it reads the table. Unsynchronised  *)
(* access to the table is a data race; the interleavings of whole          *)
(* statements below are among the executions a build can produce.          *)

(* the emplace calls of the first-run block, in order *)
FirstRunEmplaces ==
    << <<"ConfigDir", "CONFIG_DIR">>, <<"CacheDir", "CACHE_DIR">> >> \o CommonSuffixes

(* the first value assigned to user_path *)
FirstUserPath(w, local, env) ==
    IF w THEN GetExeDirectory \o <<DIR_SEP, "USERDATA_DIR", DIR_SEP>>
    ELSE IF local THEN <<"ROOT_DIR", DIR_SEP, "USERDATA_DIR", DIR_SEP>>
    ELSE GetUserDirectory("XDG_DATA_HOME", env) \o <<DIR_SEP, "EMU_DATA_DIR", DIR_SEP>>

(* the value the k-th emplace of the first-run block inserts *)
EmplaceValue(k, m, w, local, env) ==
    IF k <= 2 /\ ~w /\ ~local
    THEN GetUserDirectory(IF k = 1 THEN "XDG_CONFIG_HOME" ELSE "XDG_CACHE_HOME", env)
           \o <<DIR_SEP, "EMU_DATA_DIR", DIR_SEP>>
    ELSE m["UserDir"] \o <<FirstRunEmplaces[k][2], DIR_SEP>>

(* the roles the two threads ask for: the root, the entry the first-run    *)
(* test reads, and the first, an inner and the last emplaced entry         *)
RaceRoles == {"RootDir", "UserDir", "ConfigDir", "SDMCDir", "LogDir"}

(* if (paths.empty()), which never holds once paths[UserPath::UserDir] ran *)
FirstRunNeeded_NoEntries(m) == DOMAIN m = {}

(* if (user_path.empty()) *)
FirstRunNeeded(m) == m["UserDir"] = <<>>

(* auto& user_path = paths[UserPath::UserDir]; *)
Enter(t, path) ==
    /\ thread[t].pc = "idle"
    /\ paths' = Touch(paths, "UserDir")
    /\ thread' = [thread EXCEPT ![t] =
                     [@ EXCEPT !.pc = "check", !.path = path,
                               !.overlap = \E u \in Threads \ {t} :
                                              thread[u].pc \notin {"idle", "done"}]]
    /\ UNCHANGED <<win, localUserDir, environ, call, nOverrides, textState, fileState>>

CheckFirstRun(t) ==
    /\ thread[t].pc = "check"
    /\ thread' = [thread EXCEPT ![t] =
                     IF FirstRunNeeded(paths)
                     THEN [@ EXCEPT !.pc = "user_path"]
                     ELSE [@ EXCEPT !.pc = "return", !.skipped = TRUE]]
    /\ UNCHANGED <<win, localUserDir, environ, paths, call, nOverrides, textState,
                   fileState>>

(* the first assignment to user_path; on Windows IsDirectory(user_path)    *)
(* then decides whether a second one follows                               *)
SetUserPath(t) ==
    /\ thread[t].pc = "user_path"
    /\ paths' = Assign(paths, "UserDir", FirstUserPath(win, localUserDir, environ))
    /\ thread' = [thread EXCEPT ![t] =
                     IF win /\ ~localUserDir
                     THEN [@ EXCEPT !.pc = "roaming"]
                     ELSE [@ EXCEPT !.pc = "emplace", !.k = 1]]
    /\ UNCHANGED <<win, localUserDir, environ, call, nOverrides, textState, fileState>>

(* user_path = AppDataRoamingDirectory() + DIR_SEP EMU_DATA_DIR DIR_SEP; *)
SetUserPathRoaming(t) ==
    /\ thread[t].pc = "roaming"
    /\ paths' = Assign(paths, "UserDir",
                       AppDataRoamingDirectory \o <<DIR_SEP, "EMU_DATA_DIR", DIR_SEP>>)
    /\ thread' = [thread EXCEPT ![t] = [@ EXCEPT !.pc = "emplace", !.k = 1]]
    /\ UNCHANGED <<win, localUserDir, environ, call, nOverrides, textState, fileState>>

(* the next paths.emplace(...) of the first-run block *)
EmplaceNext(t) ==
    /\ thread[t].pc = "emplace"
    /\ LET k == thread[t].k
       IN  /\ paths' = Emplace(paths, FirstRunEmplaces[k][1],
                               EmplaceValue(k, paths, win, localUserDir, environ))
           /\ thread' = [thread EXCEPT ![t] =
                            IF k = Len(FirstRunEmplaces)
                            THEN [@ EXCEPT !.pc = "return"]
                            ELSE [@ EXCEPT !.k = k + 1]]
    /\ UNCHANGED <<win, localUserDir, environ, call, nOverrides, textState, fileState>>

(* new_path is empty: return paths[path]; *)
Return(t) ==
    /\ thread[t].pc = "return"
    /\ paths' = Touch(paths, thread[t].path)
    /\ thread' = [thread EXCEPT ![t] =
                     [@ EXCEPT !.pc = "done", !.ret = paths'[thread[t].path]]]
    /\ UNCHANGED <<win, localUserDir, environ, call, nOverrides, textState, fileState>>

InitRace == InitPaths

NextRace ==
    \E t \in Threads :
        \/ \E path \in RaceRoles : Enter(t, path)
        \/ CheckFirstRun(t)
        \/ SetUserPath(t)
        \/ SetUserPathRoaming(t)
        \/ EmplaceNext(t)
        \/ Return(t)

SpecRace == InitRace /\ [][NextRace]_vars

----------------------------------------------------------------------------
(* The whole module: a build, the user path table, IOFile objects and      *)
(* path-text calls side by side. SpecText, SpecName, SpecPaths and         *)
(* SpecFiles are its parts, each with the rest of the state left at rest.  *)

Init ==
    /\ win \in BOOLEAN
    /\ input \in StringsOver(PathChars, MaxPathLen) \cup StringsOver(NameChars, MaxNameLen)
    /\ out = NoCall
    /\ localUserDir \in BOOLEAN
    /\ environ \in IF win \/ localUserDir THEN {{}} ELSE {{}, XdgVars}
    /\ paths = EmptyMap
    /\ call = NoCall
    /\ nOverrides = 0
    /\ ThreadsIdle
    /\ FilesAtRest

Next == NextText \/ NextName \/ NextPaths \/ NextRace \/ NextFiles

Spec == Init /\ [][Next]_vars

----------------------------------------------------------------------------
(* Properties of GetUserPath *)

(* what GetUserPath(role) returns when called with the table m *)
ResolveIn(m, role) ==
    GetUserPathResult(m, role, <<>>, win, localUserDir, environ).ret

(* what GetUserPath(role) returns when called in the current state *)
Resolve(role) == ResolveIn(paths, role)

IsSepPiece(x) == x = DIR_SEP \/ x = "/" \/ x = "\\"

(* child is parent followed by exactly one subdirectory component *)
DirectChild(child, parent) ==
    /\ Len(child) = Len(parent) + 2
    /\ SubSeq(child, 1, Len(parent)) = parent
    /\ ~IsSepPiece(child[Len(parent) + 1])
    /\ IsSepPiece(child[Len(child)])

ConfigUnderUser == DirectChild(Resolve("ConfigDir"), Resolve("UserDir"))

Accepted(c) == c.op = "GetUserPath" /\ c.new_path \in Directories

Rejected(c) == c.op = "GetUserPath" /\ c.new_path \in NotDirectories

Dependents ==
    [ConfigDir |-> "CONFIG_DIR", CacheDir |-> "CACHE_DIR",
     SDMCDir |-> "SDMC_DIR", NANDDir |-> "NAND_DIR"]

(* C2: an accepted override of RootDir or UserDir makes that role resolve  *)
(* to newPath and ConfigDir, CacheDir, SDMCDir and NANDDir resolve to      *)
(* newPath plus their subdirectory suffix; an accepted override of any     *)
(* other role changes that role's path to newPath and no other role's.     *)
C2_OverrideCascades ==
    [][Accepted(call') =>
         IF call'.path \in {"RootDir", "UserDir"}
         THEN /\ ResolveIn(paths', call'.path) = call'.new_path
              /\ \A d \in DOMAIN Dependents :
                    ResolveIn(paths', d) = call'.new_path \o <<DIR_SEP, Dependents[d], DIR_SEP>>
         ELSE /\ ResolveIn(paths', call'.path) = call'.new_path
              /\ \A r \in UserPath \ {call'.path} : ResolveIn(paths', r) = Resolve(r)]_vars

(* C3: an override with a non-empty newPath that is not a directory is     *)
(* rejected: the call returns the path the role resolved to before the     *)
(* call, and afterwards every role resolves to the same path as before.    *)
C3_RejectedOverrideKeepsAll ==
    [][Rejected(call') =>
         /\ call'.ret = Resolve(call'.path)
         /\ \A r \in UserPath : ResolveIn(paths', r) = Resolve(r)]_vars

(* an override of ConfigDir was rejected after an earlier one had been     *)
(* accepted, and the call returned the entry it left in place              *)
C3_Witness ==
    /\ Rejected(call) /\ call.path = "ConfigDir"
    /\ nOverrides >= 1
    /\ paths["ConfigDir"] \in Directories
    /\ call.ret = paths["ConfigDir"]

(* C4: once a GetUserPath call has run the initialization, the RootDir and *)
(* UserDir entries of the table are non-empty and the call returned a      *)
(* non-empty path, whatever role it asked for.                             *)
C4_RootAndUserPopulated ==
    call.op = "GetUserPath" =>
        /\ "RootDir" \in DOMAIN paths /\ paths["RootDir"] # <<>>
        /\ paths["UserDir"] # <<>>
        /\ call.ret # <<>>

------------------------------------------------------------(* what a first GetUserPath(role) call returns when no other call runs *)
SingleThreaded(role) == ResolveIn(EmptyMap, role)

(* C12: as long as no GetUserPath call started while another was running,  *)
(* every finished call returned the single-threaded path of its role,      *)
(* which is not empty except for RootDir. (In the state of C12_Witness a   *)
(* call that overlapped another returned something else.)                  *)
C12_SingleThreadedPath ==
    (\A u \in Threads : ~thread[u].overlap) =>
        \A t \in Threads :
            thread[t].pc = "done" =>
                /\ thread[t].ret = SingleThreaded(thread[t].path)
                /\ thread[t].path # "RootDir" => thread[t].ret # <<>>

(* thread t saw a non-empty UserDir entry, skipped the first-run block and *)
(* returned the empty string for a role that thread u, still inside the    *)
(* block, has not emplaced yet                                             *)
C12_Witness ==
    \E t, u \in Threads :
        /\ t # u
        /\ thread[t].pc = "done" /\ thread[t].skipped
        /\ thread[t].ret = <<>>
        /\ SingleThreaded(thread[t].path) # <<>>
        /\ thread[u].pc = "emplace"
        /\ \E k \in thread[u].k..Len(FirstRunEmplaces) :
              FirstRunEmplaces[k][1] = thread[t].path

----------------
(* Properties of IOFile *)

(* C5: after any call to Close(), whatever it returned and whether or not  *)
(* the host close call failed, the object is closed (IsOpen() is false);   *)
(* Close() on an object that was already closed returns false.             *)
C5_CloseAlwaysCloses ==
    ioCall.op = "Close" =>
        /\ ~IsOpen(m_file, ioCall.h)
        /\ ~ioCall.open => ioCall.ret = FALSE

(* C6 as stated: on an object that is not open GetSize() and Tell() return *)
(* the maximum u64 and ReadImpl/WriteImpl return the maximum size_t, for   *)
(* every element count, zero included.                                     *)
C6_NotOpenReturnsMax ==
    (ioCall.op \in {"GetSize", "Tell", "ReadImpl", "WriteImpl"} /\ ~ioCall.open) =>
        ioCall.ret = IF ioCall.op \in {"GetSize", "Tell"} THEN U64Max ELSE SizeMax

(* C6 amended: on an object that is not open Tell() returns the maximum    *)
(* u64 and ReadImpl/WriteImpl return the maximum size_t for every element  *)
(* count, zero included (on an open object a request of zero elements      *)
(* returns 0), but GetSize() returns 0.                                    *)
C6_NotOpenSentinels ==
    /\ (ioCall.op = "Tell" /\ ~ioCall.open) => ioCall.ret = U64Max
    /\ (ioCall.op \in {"ReadImpl", "WriteImpl"} /\ ~ioCall.open) => ioCall.ret = SizeMax
    /\ (ioCall.op \in {"ReadImpl", "WriteImpl"} /\ ioCall.open /\ ioCall.length = 0)
          => ioCall.ret = 0
    /\ (ioCall.op = "GetSize" /\ ~ioCall.open) => ioCall.ret = 0

(* zero elements were requested from an object that had been opened and    *)
(* closed again, and the call returned the sentinel                        *)
C6_Witness ==
    /\ ioCall.op = "ReadImpl" /\ ~ioCall.open /\ ioCall.length = 0
    /\ ioCall.ret = SizeMax
    /\ ~IsOpen(m_file, ioCall.h)
    /\ \E s \in DOMAIN streams : streams[s].status = "closed"

(* C13: over any sequence of Open, Close, move construction, move          *)
(* assignment and destruction, with fopen and fclose allowed to fail, no   *)
(* stream is held by two objects at once, no stream is passed to fclose a  *)
(* second time, and once every object is destroyed every stream a          *)
(* successful Open acquired has been passed to fclose exactly once.        *)
C13_ExclusiveAndClosedOnce ==
    /\ \A h1, h2 \in Handles :
          h1 # h2 /\ IsOpen(m_file, h1) => m_file[h1] # m_file[h2]
    /\ \A s \in DOMAIN streams : streams[s].closes <= 1
    /\ (\A h \in Handles : ~alive[h]) =>
          \A s \in DOMAIN streams :
              streams[s].status # "free" => streams[s].closes = 1

====
